---- MODULE Spec2Model ----
(***************************************************************************)
(* A model of the generic HTTP-API test runner (api.test.js, launched by   *)
(* run-tests.js).  The specification module (baseUrl + spec) is the input; *)
(* the test file registers one Mocha test per row and every test runs the  *)
(* async callback of api.test.js:97-122.  JavaScript is single threaded:   *)
(* `thread` names the case whose synchronous code is running, and a case   *)
(* gives the thread up only at `await req` or when its callback ends.      *)
(***************************************************************************)
EXTENDS Integers, Sequences, FiniteSets, TLC

\* Bound of the model: the number of rows of a specification.
MaxCases == 2

(***************************************************************************)
(* JavaScript values that flow through the runner.                         *)
(***************************************************************************)
Null == [tag |-> "null"]
Undefined == [tag |-> "undefined"]
Num(n) == [tag |-> "number", n |-> n]
Str(s) == [tag |-> "string", s |-> s]
Bool(b) == [tag |-> "boolean", b |-> b]
\* An object, as the set of its <<name, value>> properties.
Obj(props) == [tag |-> "object", props |-> props]
Fn == [tag |-> "function"]

\* v == null in JavaScript: true of null and of undefined only.
IsNullish(v) == v.tag \in {"null", "undefined"}

\* Decimal digits of the small numbers the model uses.
Digit(n) ==
  CASE n = 0 -> "0" [] n = 1 -> "1" [] n = 2 -> "2" [] n = 3 -> "3"
    [] n = 4 -> "4" [] n = 5 -> "5" [] n = 6 -> "6" [] n = 7 -> "7"
    [] n = 8 -> "8" [] OTHER -> "9"

\* String(v): what String.prototype.replace makes of the callback's result.
JsString(v) ==
  CASE v.tag = "null" -> "null"
    [] v.tag = "undefined" -> "undefined"
    [] v.tag = "number" -> Digit(v.n)
    [] v.tag = "string" -> v.s
    [] v.tag = "boolean" -> (IF v.b THEN "true" ELSE "false")
    [] OTHER -> "[object Object]"

\* Truthiness with the empty object counted as falsy.
TruthyUnlessEmpty(v) ==
  CASE v.tag = "null" -> FALSE
    [] v.tag = "undefined" -> FALSE
    [] v.tag = "number" -> v.n # 0
    [] v.tag = "string" -> v.s # ""
    [] v.tag = "boolean" -> v.b
    [] v.tag = "object" -> v.props # {}
    [] OTHER -> TRUE
\* A test that lets everything pass but null and undefined.
NotNullish(v) == ~IsNullish(v)
\* if (body): JavaScript truthiness.
Truthy(v) ==
  CASE v.tag = "null" -> FALSE
    [] v.tag = "undefined" -> FALSE
    [] v.tag = "number" -> v.n # 0
    [] v.tag = "string" -> v.s # ""
    [] v.tag = "boolean" -> v.b
    [] OTHER -> TRUE

(***************************************************************************)
(* The specification module: the input of a run.                           *)
(***************************************************************************)
BaseUrl == "http://api"

\* Group names a specification may use; "2" and "10" are canonical array
\* indices, which Object.entries lists first, in ascending numeric order.
GroupNames == {"Users", "2", "10"}

ArrayIndex(k) ==
  CASE k = "2" -> 2 [] k = "10" -> 10 [] OTHER -> -1

Lit(s) == [lit |-> s]
Param(k) == [param |-> k]
IsParam(tok) == "param" \in DOMAIN tok

\* The rows a specification is made of.  A function-valued field is Fn:
\* what the function does is decided when it is called.
\*   create: README.md:44-51    retrieve: README.md:52-57
\*   delete: README.md:80-82 (5 columns, a function as expectation)
\*   legacy: api.test.js:82-91 (7 columns)
RowCreate ==
  [len |-> 6, methodRaw |-> "POST", pathTmpl |-> <<Lit("/users")>>,
   hdrs |-> Null, bodyP |-> Obj({<<"email", "a@b">>}), expecter |-> Num(201),
   col6 |-> Fn, col7 |-> Undefined]
RowRetrieve ==
  [len |-> 6, methodRaw |-> "GET",
   pathTmpl |-> <<Lit("/users/"), Param("userId")>>,
   hdrs |-> Fn, bodyP |-> Null, expecter |-> Num(200),
   col6 |-> Fn, col7 |-> Undefined]
RowDelete ==
  [len |-> 5, methodRaw |-> "delete",
   pathTmpl |-> <<Lit("/users/"), Param("userId")>>,
   hdrs |-> Fn, bodyP |-> Null, expecter |-> Fn,
   col6 |-> Undefined, col7 |-> Undefined]
RowLegacy ==
  [len |-> 7, methodRaw |-> "Put",
   pathTmpl |-> <<Lit("/users/"), Param("userId"), Lit("/peers/"),
                  Param("userId")>>,
   hdrs |-> Obj({<<"Accept", "json">>}), bodyP |-> Fn, expecter |-> Num(200),
   col6 |-> Fn, col7 |-> Fn]
Rows == {RowCreate, RowRetrieve, RowDelete, RowLegacy}

SeqsUpTo(S, n) == UNION {[1..k -> S] : k \in 0..n}

RECURSIVE SumLen(_)
SumLen(groups) ==
  IF groups = <<>> THEN 0
  ELSE Len(Head(groups).rows) + SumLen(Tail(groups))

RECURSIVE Sum(_)
Sum(sizes) == IF sizes = <<>> THEN 0 ELSE Head(sizes) + Sum(Tail(sizes))

\* The group made of the rows flat[from + 1 .. from + size].
MkGroup(name, flat, from, size) ==
  [group |-> name, rows |-> SubSeq(flat, from + 1, from + size)]

\* The specification whose groups are named names[i] and hold sizes[i] rows
\* each, the rows being those of flat in order.
MkSpec(flat, names, sizes) ==
  [i \in DOMAIN names |->
     MkGroup(names[i], flat, Sum(SubSeq(sizes, 1, i - 1)), sizes[i])]

\* Every specification of 1..MaxCases rows: a mapping (here: the sequence of
\* its entries in declaration order) of distinct group names to non-empty
\* sequences of rows.
Specifications ==
  {MkSpec(x.flat, x.names, x.sizes) :
     x \in {y \in [flat : SeqsUpTo(Rows, MaxCases) \ {<<>>},
                   names : SeqsUpTo(GroupNames, Cardinality(GroupNames)) \ {<<>>},
                   sizes : SeqsUpTo(1..MaxCases, Cardinality(GroupNames))] :
              /\ Len(y.names) = Len(y.sizes)
              /\ Sum(y.sizes) = Len(y.flat)
              /\ \A i, j \in DOMAIN y.names : i # j => y.names[i] # y.names[j]}}

RECURSIVE Flatten(_)
Flatten(groups) ==
  IF groups = <<>> THEN <<>>
  ELSE Head(groups).rows \o Flatten(Tail(groups))

(***************************************************************************)
(* Object.entries(spec): the keys that are canonical array indices first,  *)
(* in ascending numeric order, then the other keys in insertion order.     *)
(***************************************************************************)
RECURSIVE InsertByIndex(_, _)
InsertByIndex(e, sorted) ==
  IF sorted = <<>> THEN <<e>>
  ELSE IF ArrayIndex(e.group) < ArrayIndex(Head(sorted).group)
       THEN <<e>> \o sorted
       ELSE <<Head(sorted)>> \o InsertByIndex(e, Tail(sorted))

RECURSIVE SortByIndex(_)
SortByIndex(es) ==
  IF es = <<>> THEN <<>>
  ELSE InsertByIndex(Head(es), SortByIndex(Tail(es)))

IsIndexKey(e) == ArrayIndex(e.group) >= 0
IsNameKey(e) == ArrayIndex(e.group) < 0

ObjectEntries(o) ==
  SortByIndex(SelectSeq(o, IsIndexKey)) \o SelectSeq(o, IsNameKey)

\* A case is known by its place in the declaration: the rows of the groups
\* in declared order are the cases 1, 2, ...  WithIds replaces every row of
\* the specification by its case.
WithIds(groups) ==
  [g \in DOMAIN groups |->
     [group |-> groups[g].group,
      rows |-> [j \in DOMAIN groups[g].rows |->
                  SumLen(SubSeq(groups, 1, g - 1)) + j]]]

(***************************************************************************)
(* State.                                                                  *)
(***************************************************************************)
VARIABLES
  specPath,      \* run-tests.js: Bun.argv[2], TRUE iff it was given
  baseUrl,       \* the specification module's baseUrl export
  specExported,  \* TRUE iff the specification module exports spec
  spec,          \* the spec export: its groups in declaration order
  phase,         \* "boot", "load", "run", "done", "exited", "crashed"
  exitCode,      \* the process exit code, -1 while none is set
  tests,         \* the registered cases, in registration order
  S,             \* Shared State (<<>> until api.test.js:51 creates it)
  cur,           \* the runner's position in tests (0: none started)
  thread,        \* the case whose synchronous code runs (0: none)
  report,        \* the runner's verdict on each case
  timedOut,      \* the cases the runner failed by the timeout
  pc,            \* where each case's callback stands
  pathResolved,  \* the callback's locals
  headers,
  body,
  res,
  err,
  sent,          \* per case, the requests it dispatched
  stderr,        \* per case, the diagnostics it emitted
  calls,         \* per case, the calls made, in order, and whether each threw
  seenAt,        \* per case, Shared State as its path resolution saw it
  hookWrote,     \* per case, the keys its hooks wrote, with the last value
  lastWriter,    \* per key, the case whose hook wrote it last (0: none)
  order,         \* the cases in the order the runner started them
  fatal          \* the error thrown at the top level of api.test.js, if any

inputs == <<specPath, baseUrl, specExported, spec>>
runner == <<phase, exitCode, tests, cur, report, timedOut, order>>
locals == <<pathResolved, headers, body, res, err>>
state == <<S, hookWrote, lastWriter>>
history == <<sent, stderr, calls, seenAt>>
vars == <<inputs, runner, thread, pc, locals, state, history, fatal>>

Cases == 1..SumLen(spec)
Row(i) == Flatten(spec)[i]
Title(i) == "t" \o Digit(i)

\* The keys api.test.js:51-59 declares (two of the seven, all alike).
StateKeys == {"token", "userId"}
NoWrites == [k \in StateKeys |-> Undefined]

\* The inputs of a run.  A module that lacks an export is paired with the
\* one-row specifications only: it never runs a case.
Init ==
  /\ specPath \in BOOLEAN
  /\ baseUrl \in {Str(BaseUrl), Str(""), Undefined}
  /\ specExported \in BOOLEAN
  /\ spec \in Specifications
  /\ (~specPath \/ ~specExported \/ baseUrl # Str(BaseUrl)) => SumLen(spec) = 1
  /\ phase = "boot"
  /\ exitCode = -1
  /\ tests = <<>>
  /\ S = <<>>
  /\ cur = 0
  /\ thread = 0
  /\ report = [i \in Cases |-> "none"]
  /\ timedOut = {}
  /\ pc = [i \in Cases |-> "pending"]
  /\ pathResolved = [i \in Cases |-> Undefined]
  /\ headers = [i \in Cases |-> Undefined]
  /\ body = [i \in Cases |-> Undefined]
  /\ res = [i \in Cases |-> Undefined]
  /\ err = [i \in Cases |-> Undefined]
  /\ sent = [i \in Cases |-> <<>>]
  /\ stderr = [i \in Cases |-> <<>>]
  /\ calls = [i \in Cases |-> <<>>]
  /\ seenAt = [i \in Cases |-> <<>>]
  /\ hookWrote = [i \in Cases |-> NoWrites]
  /\ lastWriter = [k \in StateKeys |-> 0]
  /\ order = <<>>
  /\ fatal = Undefined

(***************************************************************************)
(* run-tests.js and the top level of api.test.js.                          *)
(***************************************************************************)
\* run-tests.js:25-39.
Boot ==
  /\ phase = "boot"
  /\ IF specPath
     THEN phase' = "load" /\ UNCHANGED exitCode
     ELSE phase' = "exited" /\ exitCode' = 1
  /\ UNCHANGED <<inputs, fatal, tests, cur, report, timedOut, order, thread, pc,
                 locals, state, history>>

\* describe('API contract'): one suite per entry of Object.entries(spec),
\* one test per row (api.test.js:76-125).
RECURSIVE FlattenIds(_)
FlattenIds(entries) ==
  IF entries = <<>> THEN <<>>
  ELSE Head(entries).rows \o FlattenIds(Tail(entries))

Registered(groups) == FlattenIds(ObjectEntries(WithIds(groups)))

\* api.test.js:41 and :47: the messages of the two top-level errors, as the
\* words they are made of (the leading mark is left out).
NoSpecFile ==
  <<"No spec file supplied. Usage: node api.test.js <specFile.js>">>
MustExport == <<"Spec file must export {", "baseUrl", ",", "spec", "}">>

\* A validation that looks at baseUrl only.
ExportsBaseUrl(b, s) == Truthy(b)
\* api.test.js:46: baseUrl && spec.  The spec export, when there is one, is
\* an object and so truthy.
Exports(b, s) == Truthy(b) /\ s

\* mocha.run loads api.test.js (run-tests.js:39-42): the top level of
\* api.test.js, lines 31-125.  A throw there ends the process.
LoadFile ==
  /\ phase = "load"
  /\ IF ~specPath
     THEN /\ fatal' = NoSpecFile
          /\ phase' = "crashed"
          /\ exitCode' = 1
          /\ UNCHANGED <<tests, S>>
     ELSE IF ~Exports(baseUrl, specExported)
     THEN /\ fatal' = MustExport
          /\ phase' = "crashed"
          /\ exitCode' = 1
          /\ UNCHANGED <<tests, S>>
     ELSE /\ phase' = "run"
          /\ S' = [k \in StateKeys |-> Null]
          /\ tests' = Registered(spec)
          /\ UNCHANGED <<exitCode, fatal>>
  /\ UNCHANGED <<inputs, cur, report, timedOut, order, thread, pc, locals,
                 hookWrote, lastWriter, history>>

(***************************************************************************)
(* Helpers of the test callback.                                           *)
(***************************************************************************)
\* S[k]: undefined for a key the record does not hold.
Lookup(st, k) == IF k \in DOMAIN st THEN st[k] ELSE Undefined

\* The falsy test !S[k], which also rejects 0, "" and false.
MissingFalsy(st, k) == ~Truthy(Lookup(st, k))
\* api.test.js:64: S[k] == null.
Missing(st, k) == IsNullish(Lookup(st, k))

\* api.test.js:62-67.  The template is the sequence of the pieces the
\* regular expression /:([A-Za-z_]+)/g cuts it into: text and placeholders.
\* The first placeholder without a value throws.
RECURSIVE applyParams(_, _)
applyParams(tmpl, st) ==
  IF tmpl = <<>> THEN [ok |-> TRUE, path |-> ""]
  ELSE LET tok == Head(tmpl) IN
       IF IsParam(tok) /\ Missing(st, tok.param)
       THEN [ok |-> FALSE, key |-> tok.param,
             message |-> "Missing S." \o tok.param \o " for path param :"
                         \o tok.param]
       ELSE LET rest == applyParams(Tail(tmpl), st)
                piece == IF IsParam(tok)
                         THEN JsString(Lookup(st, tok.param))
                         ELSE tok.lit
            IN IF rest.ok
               THEN [ok |-> TRUE, path |-> piece \o rest.path]
               ELSE rest

\* api.test.js:94 and :72: toLowerCase, toUpperCase of the method names used.
ToLowerCase(m) ==
  CASE m \in {"GET", "get"} -> "get"
    [] m \in {"POST", "post"} -> "post"
    [] m \in {"Put", "PUT", "put"} -> "put"
    [] OTHER -> "delete"
ToUpperCase(m) ==
  CASE m \in {"GET", "get"} -> "GET"
    [] m \in {"POST", "post"} -> "POST"
    [] m \in {"Put", "PUT", "put"} -> "PUT"
    [] OTHER -> "DELETE"

\* api.test.js:27: auth(S), the header function of the README's rows.
auth(st) == Obj({<<"Authorization", "Bearer " \o JsString(Lookup(st, "token"))>>})

\* api.test.js:69-73: the command line, as its parts.  -d is given iff the
\* body is truthy.
curlCmd(method, path, hs, b) ==
  [X |-> ToUpperCase(method),
   url |-> BaseUrl \o JsString(path),
   H |-> IF IsNullish(hs) THEN {} ELSE hs.props,
   d |-> IF Truthy(b) THEN b ELSE Undefined]

\* An error object: its message and its response property, if any.
Error(msg, response) == [tag |-> "error", message |-> msg, response |-> response]

\* api.test.js:119: err.response?.body ?? err.message.
Detail(e) ==
  IF IsNullish(e.response) THEN Str(e.message)
  ELSE IF IsNullish(e.response.body) THEN Str(e.message)
  ELSE e.response.body

\* What the transport may answer.
Response(status, b) == [tag |-> "response", status |-> Num(status), body |-> b]
Responses == {Response(st, Obj({<<"id", "7">>})) : st \in {200, 201}}
TransportErrors ==
  {Error("ECONNREFUSED", Undefined),
   Error("Parser error", Response(200, Obj({<<"id", "7">>})))}

\* What a hook may do to Shared State: nothing, or one assignment.
HookWrites ==
  {<<"userId", Num(7)>>, <<"userId", Num(0)>>, <<"token", Str("tok")>>}
HookEffects == [write : {{}} \cup {{w} : w \in HookWrites}, raise : BOOLEAN]

\* What a header or body function may do to Shared State, which it is
\* handed as it is (hdrs(S), bodyP(S)): nothing, or one assignment.
FnWrites == {{}, {<<"token", Str("tok")>>}}

Assign(st, write) ==
  [k \in DOMAIN st \cup {w[1] : w \in write} |->
     IF \E w \in write : w[1] = k
     THEN (CHOOSE w \in write : w[1] = k)[2]
     ELSE st[k]]

\* An entry of calls: the function called and whether the call threw.
Call(fn, raised) == [fn |-> fn, raised |-> raised]

\* A comparison that accepts every status up to the expected one.
strictEqualUpTo(actual, expected) == actual.n <= expected.n
\* A comparison that accepts every status.
strictEqualNever(actual, expected) == TRUE
\* assert.strictEqual(actual, expected) returns (api.test.js:111).
strictEqual(actual, expected) == actual = expected

\* The runner option bail: true, which ends the run at the first failure.
BailOnFailure == TRUE
\* run-tests.js:35: the runner's options set neither bail nor retries, so a
\* failure does not end the run.
Bail == FALSE

IsFunction(v) == v.tag = "function"

\* api.test.js:85-91: the three hooks of a row, by the row's length.
combinedFn(row) == IF row.len = 6 THEN row.col6 ELSE Undefined
assertBody(row) == IF row.len = 6 THEN Undefined ELSE row.col6
store(row) == IF row.len = 6 THEN Undefined ELSE row.col7

\* What a body function may return.
BodyValues ==
  {Null, Num(0), Str(""), Bool(FALSE), Obj({}), Obj({<<"name", "x">>})}

(***************************************************************************)
(* The runner (Mocha, configured at run-tests.js:35 and api.test.js:77)    *)
(* and the test callback (api.test.js:97-122), one action per step.        *)
(***************************************************************************)
\* The runner is between two tests: none started, or the last one reported.
Idle == IF cur = 0 THEN TRUE ELSE report[tests[cur]] # "none"

\* A runner that counts no failure.
NoFailures == Cardinality({i \in Cases : FALSE})
\* The failures the runner has counted (run-tests.js:42).
Failures == Cardinality({i \in Cases : report[i] = "failed"})

\* The runner calls the callback of the next registered test.
StartTest ==
  \E i \in Cases :
    /\ phase = "run" /\ thread = 0 /\ Idle
    /\ cur < Len(tests) /\ i = tests[cur + 1]
    /\ ~(Bail /\ Failures # 0)
    /\ cur' = cur + 1
    /\ thread' = i
    /\ pc' = [pc EXCEPT ![i] = "resolve"]
    /\ order' = Append(order, i)
    /\ UNCHANGED <<inputs, fatal, phase, exitCode, tests, report, timedOut, locals,
                   state, history>>

\* api.test.js:98.
Resolve ==
  \E i \in Cases :
    /\ thread = i /\ pc[i] = "resolve"
    /\ LET r == applyParams(Row(i).pathTmpl, S) IN
         IF r.ok
         THEN /\ pathResolved' = [pathResolved EXCEPT ![i] = Str(r.path)]
              /\ pc' = [pc EXCEPT ![i] = "headers"]
              /\ UNCHANGED err
         ELSE /\ err' = [err EXCEPT ![i] = Error(r.message, Undefined)]
              /\ pc' = [pc EXCEPT ![i] = "thrown"]
              /\ UNCHANGED pathResolved
    /\ seenAt' = [seenAt EXCEPT ![i] = S]
    /\ calls' = [calls EXCEPT ![i] =
                   Append(@, Call("applyParams", ~applyParams(Row(i).pathTmpl, S).ok))]
    /\ UNCHANGED <<inputs, fatal, runner, thread, headers, body, res, state, sent,
                   stderr>>

\* A header or body function assigns w to Shared State: the keys it writes
\* no longer hold what a hook wrote.
FnWrite(w) ==
  /\ S' = Assign(S, w)
  /\ lastWriter' = [k \in StateKeys |->
                      IF \E x \in w : x[1] = k THEN 0 ELSE lastWriter[k]]
  /\ UNCHANGED hookWrote

\* api.test.js:99.
Headers ==
  \E i \in Cases :
    /\ thread = i /\ pc[i] = "headers"
    /\ IF IsFunction(Row(i).hdrs)
       THEN \E raises \in BOOLEAN, w \in FnWrites :
              /\ FnWrite(w)
              /\ calls' = [calls EXCEPT ![i] = Append(@, Call("hdrs", raises))]
              /\ IF raises
                 THEN /\ err' = [err EXCEPT ![i] = Error("hdrs failed", Undefined)]
                      /\ pc' = [pc EXCEPT ![i] = "thrown"]
                      /\ UNCHANGED headers
                 ELSE /\ headers' = [headers EXCEPT ![i] = auth(Assign(S, w))]
                      /\ pc' = [pc EXCEPT ![i] = "body"]
                      /\ UNCHANGED err
       ELSE /\ headers' = [headers EXCEPT ![i] =
                             IF Truthy(Row(i).hdrs) THEN Row(i).hdrs ELSE Obj({})]
            /\ pc' = [pc EXCEPT ![i] = "body"]
            /\ UNCHANGED <<err, calls, state>>
    /\ UNCHANGED <<inputs, fatal, runner, thread, pathResolved, body, res,
                   sent, stderr, seenAt>>

\* api.test.js:100.
Body ==
  \E i \in Cases :
    /\ thread = i /\ pc[i] = "body"
    /\ IF IsFunction(Row(i).bodyP)
       THEN \E w \in FnWrites :
              /\ FnWrite(w)
              /\ \/ /\ calls' = [calls EXCEPT ![i] =
                                   Append(@, Call("bodyP", TRUE))]
                    /\ err' = [err EXCEPT ![i] = Error("bodyP failed", Undefined)]
                    /\ pc' = [pc EXCEPT ![i] = "thrown"]
                    /\ UNCHANGED body
                 \/ \E v \in BodyValues :
                      /\ calls' = [calls EXCEPT ![i] =
                                     Append(@, Call("bodyP", FALSE))]
                      /\ body' = [body EXCEPT ![i] = v]
                      /\ pc' = [pc EXCEPT ![i] = "dispatch"]
                      /\ UNCHANGED err
       ELSE /\ body' = [body EXCEPT ![i] = Row(i).bodyP]
            /\ pc' = [pc EXCEPT ![i] = "dispatch"]
            /\ UNCHANGED <<err, calls, state>>
    /\ UNCHANGED <<inputs, fatal, runner, thread, pathResolved, headers, res,
                   sent, stderr, seenAt>>

\* api.test.js:94 and :102-107: the request is built, the body attached iff
\* it is truthy, and `await req` sends it and gives up the thread.
Request(i) ==
  [method |-> ToLowerCase(Row(i).methodRaw),
   url |-> BaseUrl \o JsString(pathResolved[i]),
   headers |-> headers[i].props,
   body |-> IF Truthy(body[i]) THEN body[i] ELSE Undefined]

Dispatch ==
  \E i \in Cases :
    /\ thread = i /\ pc[i] = "dispatch"
    /\ sent' = [sent EXCEPT ![i] = Append(@, Request(i))]
    /\ pc' = [pc EXCEPT ![i] = "awaiting"]
    /\ thread' = 0
    /\ UNCHANGED <<inputs, fatal, runner, locals, state, stderr, calls, seenAt>>

\* api.test.js:107: the response arrives and the callback goes on.
Respond ==
  \E i \in Cases :
    /\ thread = 0 /\ pc[i] = "awaiting"
    /\ \E r \in Responses : res' = [res EXCEPT ![i] = r]
    /\ calls' = [calls EXCEPT ![i] = Append(@, Call("await", FALSE))]
    /\ pc' = [pc EXCEPT ![i] = "expect"]
    /\ thread' = i
    /\ UNCHANGED <<inputs, fatal, runner, pathResolved, headers, body, err, state,
                   sent, stderr, seenAt>>

\* api.test.js:107: `await req` throws.
TransportFail ==
  \E i \in Cases :
    /\ thread = 0 /\ pc[i] = "awaiting"
    /\ \E e \in TransportErrors : err' = [err EXCEPT ![i] = e]
    /\ calls' = [calls EXCEPT ![i] = Append(@, Call("await", TRUE))]
    /\ pc' = [pc EXCEPT ![i] = "catch"]
    /\ thread' = i
    /\ UNCHANGED <<inputs, fatal, runner, pathResolved, headers, body, res, state,
                   sent, stderr, seenAt>>

\* api.test.js:77: the runner's timer fires while the current test waits;
\* the runner fails the test and goes on, the callback is not ended.
Timeout ==
  \E i \in Cases :
    /\ phase = "run" /\ thread = 0 /\ cur > 0 /\ i = tests[cur]
    /\ report[i] = "none" /\ pc[i] = "awaiting"
    /\ report' = [report EXCEPT ![i] = "failed"]
    /\ timedOut' = timedOut \cup {i}
    /\ UNCHANGED <<inputs, fatal, phase, exitCode, tests, cur, order, thread, pc,
                   locals, state, history>>

\* api.test.js:109-111.
Expect ==
  \E i \in Cases :
    /\ thread = i /\ pc[i] = "expect"
    /\ \E raises \in BOOLEAN :
         /\ ~IsFunction(Row(i).expecter) =>
              raises = ~strictEqual(res[i].status, Row(i).expecter)
         /\ calls' = [calls EXCEPT ![i] = Append(@, Call("expecter", raises))]
         /\ IF raises
            THEN /\ err' = [err EXCEPT ![i] = Error("expectation failed", Undefined)]
                 /\ pc' = [pc EXCEPT ![i] = "catch"]
            ELSE /\ pc' = [pc EXCEPT ![i] = "combinedFn"]
                 /\ UNCHANGED err
    /\ UNCHANGED <<inputs, fatal, runner, thread, pathResolved, headers, body, res,
                   state, sent, stderr, seenAt>>

\* api.test.js:113-115: one hook call. fn || (() => {}) is a no-op unless
\* the row gave a function; a function does what HookEffects allows.  The
\* callback goes on at `next`, or at `caught` when the hook throws.
Hook(i, name, fn, next, caught) ==
  /\ thread = i /\ pc[i] = name
  /\ IF Truthy(fn)
     THEN \E e \in HookEffects :
            /\ S' = Assign(S, e.write)
            /\ hookWrote' = [hookWrote EXCEPT ![i] = Assign(@, e.write)]
            /\ lastWriter' = [k \in StateKeys |->
                                IF \E w \in e.write : w[1] = k
                                THEN i ELSE lastWriter[k]]
            /\ calls' = [calls EXCEPT ![i] = Append(@, Call(name, e.raise))]
            /\ IF e.raise
               THEN /\ err' = [err EXCEPT ![i] = Error(name \o " failed", Undefined)]
                    /\ pc' = [pc EXCEPT ![i] = caught]
               ELSE /\ pc' = [pc EXCEPT ![i] = next]
                    /\ UNCHANGED err
     ELSE /\ pc' = [pc EXCEPT ![i] = next]
          /\ UNCHANGED <<state, calls, err>>
  /\ UNCHANGED <<inputs, fatal, runner, thread, pathResolved, headers, body, res,
                 sent, stderr, seenAt>>

\* A combined hook whose error is swallowed: the callback goes on.
CombinedFnSwallows ==
  \E i \in Cases :
    Hook(i, "combinedFn", combinedFn(Row(i)), "assertBody", "assertBody")
CombinedFn ==
  \E i \in Cases :
    Hook(i, "combinedFn", combinedFn(Row(i)), "assertBody", "catch")
\* An assertion hook whose error is swallowed: the state update still runs.
AssertBodySwallows ==
  \E i \in Cases :
    Hook(i, "assertBody", assertBody(Row(i)), "store", "store")
AssertBody ==
  \E i \in Cases :
    Hook(i, "assertBody", assertBody(Row(i)), "store", "catch")
Store ==
  \E i \in Cases :
    Hook(i, "store", store(Row(i)), "returned", "catch")

\* A diagnostic that resolves the path and the header function afresh,
\* against Shared State as it is when the error is caught.
DiagnosticAfresh(i) ==
  [title |-> Title(i),
   cmd |-> curlCmd(ToLowerCase(Row(i).methodRaw),
                   Str(applyParams(Row(i).pathTmpl, S).path),
                   IF IsFunction(Row(i).hdrs) THEN auth(S) ELSE headers[i],
                   body[i]),
   detail |-> Detail(err[i])]
\* api.test.js:117-120.
Diagnostic(i) ==
  [title |-> Title(i),
   cmd |-> curlCmd(ToLowerCase(Row(i).methodRaw), pathResolved[i],
                   headers[i], body[i]),
   detail |-> Detail(err[i])]

\* A catch block that reports the failure twice.
CatchTwice ==
  \E i \in Cases :
    /\ thread = i /\ pc[i] = "catch"
    /\ stderr' = [stderr EXCEPT ![i] = @ \o <<Diagnostic(i), Diagnostic(i)>>]
    /\ pc' = [pc EXCEPT ![i] = "thrown"]
    /\ UNCHANGED <<inputs, fatal, runner, thread, locals, state, sent, calls,
                   seenAt>>
Catch ==
  \E i \in Cases :
    /\ thread = i /\ pc[i] = "catch"
    /\ stderr' = [stderr EXCEPT ![i] = Append(@, Diagnostic(i))]
    /\ pc' = [pc EXCEPT ![i] = "thrown"]
    /\ UNCHANGED <<inputs, fatal, runner, thread, locals, state, sent, calls, seenAt>>

\* The callback's promise settles and the runner, unless the timeout has
\* already failed the test, takes the outcome as the test's verdict.
Settle ==
  \E i \in Cases :
    /\ thread = i /\ pc[i] \in {"returned", "thrown"}
    /\ thread' = 0
    /\ pc' = [pc EXCEPT ![i] = "done"]
    /\ report' = [report EXCEPT ![i] =
                    IF @ # "none" THEN @
                    ELSE IF pc[i] = "returned" THEN "passed" ELSE "failed"]
    /\ pathResolved' = [pathResolved EXCEPT ![i] = Undefined]
    /\ headers' = [headers EXCEPT ![i] = Undefined]
    /\ body' = [body EXCEPT ![i] = Undefined]
    /\ res' = [res EXCEPT ![i] = Undefined]
    /\ err' = [err EXCEPT ![i] = Undefined]
    /\ UNCHANGED <<inputs, fatal, phase, exitCode, tests, cur, timedOut, order, state,
                   history>>

\* run-tests.js:42-44: every test has its verdict.
Finish ==
  /\ phase = "run" /\ thread = 0 /\ Idle
  /\ cur = Len(tests) \/ (Bail /\ Failures # 0)
  /\ phase' = "done"
  /\ exitCode' = IF Failures # 0 THEN 1 ELSE 0
  /\ UNCHANGED <<inputs, fatal, tests, cur, report, timedOut, order, thread, pc,
                 locals, state, history>>

Next ==
  \/ Boot
  \/ LoadFile
  \/ Finish
  \/ StartTest
  \/ Resolve
  \/ Headers
  \/ Body
  \/ Dispatch
  \/ Respond
  \/ TransportFail
  \/ Timeout
  \/ Expect
  \/ CombinedFn
  \/ AssertBody
  \/ Store
  \/ Catch
  \/ Settle

Spec == Init /\ [][Next]_vars

(***************************************************************************)
(* Properties.                                                             *)
(***************************************************************************)
\* The calls of case i that ran function fn.
CallsOf(i, fn) == {n \in DOMAIN calls[i] : calls[i][n].fn = fn}
Called(i, fn) == CallsOf(i, fn) # {}
Raised(i, fn) == \E n \in CallsOf(i, fn) : calls[i][n].raised
HookNames == {"combinedFn", "assertBody", "store"}

\* C1: the cases are executed in the order of their declaration: groups in
\* the order their keys were declared, rows in sequence order.  (A case is
\* numbered by its place in the declaration.)
C1_ExecutionOrderIsDeclarationOrder ==
  \A n \in DOMAIN order : order[n] = n

\* C2: a key written by a hook of a passed case N holds that value when a
\* case M declared after N resolves its path, unless a case declared between
\* the two wrote the key.
C2_LaterCaseSeesEarlierWrite ==
  \A n, m \in Cases : \A k \in StateKeys :
    (/\ n < m
     /\ report[n] = "passed"
     /\ hookWrote[n][k] # Undefined
     /\ Called(m, "applyParams")
     /\ \A x \in Cases : (n < x /\ x < m) => hookWrote[x][k] = Undefined)
    => seenAt[m][k] = hookWrote[n][k]

\* C3: at most one case is between the start of its path resolution and the
\* end of its hooks.
InExecution(i) ==
  pc[i] \in {"resolve", "headers", "body", "dispatch", "awaiting", "expect",
             "combinedFn", "assertBody", "store"}
C3_AtMostOneCaseInExecution ==
  Cardinality({i \in Cases : InExecution(i)}) <= 1

\* C4: a placeholder whose key is null or undefined when the path is
\* resolved fails the case with an error naming the key, no request is
\* dispatched and Shared State is unchanged; otherwise every placeholder is
\* replaced by the stringified value of its key.
MissingParams(i) ==
  {n \in DOMAIN Row(i).pathTmpl :
     /\ IsParam(Row(i).pathTmpl[n])
     /\ seenAt[i][Row(i).pathTmpl[n].param] \in {Null, Undefined}}
FirstMissing(i) ==
  Row(i).pathTmpl[CHOOSE n \in MissingParams(i) :
                    \A m \in MissingParams(i) : n <= m].param
StringOf(v) ==
  CASE v = Num(0) -> "0" [] v = Num(7) -> "7" [] v = Str("tok") -> "tok"
    [] OTHER -> "?"
RECURSIVE Filled(_, _, _)
Filled(tmpl, st, n) ==
  IF n = 0 THEN ""
  ELSE Filled(tmpl, st, n - 1)
       \o (IF IsParam(tmpl[n]) THEN StringOf(st[tmpl[n].param])
           ELSE tmpl[n].lit)
FilledPath(i) == Filled(Row(i).pathTmpl, seenAt[i], Len(Row(i).pathTmpl))
C4_PlaceholderResolution ==
  \A i \in Cases : Called(i, "applyParams") =>
    IF MissingParams(i) # {}
    THEN /\ calls[i] = <<Call("applyParams", TRUE)>>
         /\ sent[i] = <<>>
         /\ pc[i] \in {"thrown", "done"}
         /\ pc[i] = "thrown" =>
              /\ err[i].message = "Missing S." \o FirstMissing(i)
                                  \o " for path param :" \o FirstMissing(i)
              /\ S = seenAt[i]
         /\ pc[i] = "done" => report[i] = "failed"
    ELSE /\ calls[i][1] = Call("applyParams", FALSE)
         /\ pathResolved[i] # Undefined => pathResolved[i] = Str(FilledPath(i))
         /\ \A n \in DOMAIN sent[i] : sent[i][n].url = BaseUrl \o FilledPath(i)
C4_Witness ==
  \E i \in Cases :
    /\ pc[i] = "thrown"
    /\ MissingParams(i) # {}
    /\ calls[i] = <<Call("applyParams", TRUE)>>
    /\ \E j \in Cases : sent[j] # <<>> /\ sent[j][1].url = BaseUrl \o "/users"

\* C5: a hook is invoked only after the expectation was evaluated without
\* raising; a status that differs from an integer expectation raises, and
\* after an expectation that raised no hook of the case is invoked.
C5_HooksOnlyAfterExpectationPassed ==
  \A i \in Cases :
    /\ \A n \in DOMAIN calls[i] :
         calls[i][n].fn \in HookNames =>
           \E m \in 1..(n - 1) : calls[i][m] = Call("expecter", FALSE)
    /\ Raised(i, "expecter") => \A h \in HookNames : ~Called(i, h)
    /\ (/\ Called(i, "expecter")
        /\ pc[i] # "done"
        /\ ~IsFunction(Row(i).expecter)
        /\ res[i].status # Row(i).expecter) => Raised(i, "expecter")
C5_Witness ==
  \E i \in Cases :
    /\ Raised(i, "expecter")
    /\ IsFunction(Row(i).col6)
    /\ ~IsFunction(Row(i).expecter)
    /\ pc[i] = "thrown"

\* C6: in a 7-field case the assertion hook is invoked before the
\* state-update hook, and when the assertion raises the state update is
\* never invoked and the case fails.
C6_AssertionBeforeStateUpdate ==
  \A i \in Cases : (Row(i).len = 7 /\ IsFunction(Row(i).col6)) =>
    /\ \A n \in CallsOf(i, "store") :
         \E m \in 1..(n - 1) : calls[i][m] = Call("assertBody", FALSE)
    /\ Raised(i, "assertBody") =>
         /\ ~Called(i, "store")
         /\ pc[i] \in {"catch", "thrown", "done"}
         /\ pc[i] = "done" => report[i] = "failed"
C6_Witness ==
  \E i \in Cases :
    /\ Row(i).len = 7
    /\ Raised(i, "assertBody")
    /\ pc[i] = "done"
    /\ i \notin timedOut
    /\ report[i] = "failed"

\* C7: Shared State holds no write performed by a hook of a case that was
\* reported failed.
C7_FailedCaseLeavesNoHookWrite ==
  \A i \in Cases : report[i] = "failed" =>
    \A k \in StateKeys : lastWriter[k] # i

\* C8: whenever a case fails, a diagnostic with the case title, the HTTP
\* method and the resolved URL has been emitted before the error reaches
\* the runner.
C8_EveryFailureHasDiagnostic ==
  \A i \in Cases : (pc[i] = "thrown" \/ report[i] = "failed") =>
    /\ stderr[i] # <<>>
    /\ \A n \in DOMAIN stderr[i] :
         /\ stderr[i][n].title = Title(i)
         /\ stderr[i][n].cmd.X = ToUpperCase(Row(i).methodRaw)
         /\ \E r \in DOMAIN sent[i] : stderr[i][n].cmd.url = sent[i][r].url

\* C9: the diagnostic of a case that fails after its response was received
\* shows the response body.
C9_DiagnosticShowsResponseBody ==
  \A i \in Cases :
    (pc[i] = "thrown" /\ stderr[i] # <<>> /\ res[i] # Undefined) =>
      stderr[i][Len(stderr[i])].detail = res[i].body

\* C10 as claimed: after a failed case, every case declared later is started
\* exactly once and passes if its placeholders are bound and its expectation
\* and hooks do not raise.
StartedOnce(i) == Cardinality({n \in DOMAIN order : order[n] = i}) = 1
Bound(i) == Called(i, "applyParams") /\ ~Raised(i, "applyParams")
C10_LaterCasePassesUnlessItRaises ==
  phase = "done" =>
    \A f, i \in Cases : (report[f] = "failed" /\ f < i) =>
      /\ StartedOnce(i)
      /\ (/\ Bound(i)
          /\ \A h \in HookNames \cup {"expecter"} : ~Raised(i, h))
         => report[i] = "passed"

\* C10, amended: ... and passes if its placeholders are bound, its header
\* and body functions do not raise, a response arrives before the per-case
\* timeout, and its expectation and hooks do not raise.  No case is ever
\* started twice.
C10_LaterCaseRunsOnce ==
  /\ \A i \in Cases : Cardinality({n \in DOMAIN order : order[n] = i}) <= 1
  /\ phase = "done" =>
       \A f, i \in Cases : (report[f] = "failed" /\ f < i) =>
         /\ StartedOnce(i)
         /\ (/\ Bound(i)
             /\ i \notin timedOut
             /\ \A h \in HookNames \cup {"expecter", "hdrs", "bodyP", "await"} :
                  ~Raised(i, h))
            => report[i] = "passed"
C10_Witness ==
  /\ phase = "done"
  /\ \E f, i \in Cases :
       f < i /\ report[f] = "failed" /\ report[i] = "passed"

\* C11: the evaluation step of an integer expectation passes iff the status
\* of the response strictly equals it; that of a callable expectation passes
\* iff the call returns without raising.
LastCall(i) == calls[i][Len(calls[i])]
JustEvaluated(i) ==
  /\ calls[i] # <<>>
  /\ LastCall(i).fn = "expecter"
  /\ pc[i] # "done"
EvaluationPassed(i) ==
  pc[i] \in {"combinedFn", "assertBody", "store", "returned"}
EvaluationFailed(i) == pc[i] \in {"catch", "thrown"}
C11_ExpectationDecides ==
  \A i \in Cases : JustEvaluated(i) =>
    /\ EvaluationPassed(i) \/ EvaluationFailed(i)
    /\ IF IsFunction(Row(i).expecter)
       THEN EvaluationPassed(i) <=> ~LastCall(i).raised
       ELSE EvaluationPassed(i) <=>
              (res[i].status.tag = "number" /\ Row(i).expecter.tag = "number"
               /\ res[i].status.n = Row(i).expecter.n)
C11_Witness ==
  \E i \in Cases :
    /\ JustEvaluated(i)
    /\ ~IsFunction(Row(i).expecter)
    /\ res[i].status.n = 200 /\ Row(i).expecter.n = 201
    /\ pc[i] = "catch"

\* C12: a body is attached to the request iff the body value is truthy; for
\* null, 0, "" and false none is attached and the request is dispatched all
\* the same.
JsFalsy == {Null, Undefined, Num(0), Str(""), Bool(FALSE)}
Dispatched(i) ==
  pc[i] \in {"awaiting", "expect", "combinedFn", "assertBody", "store",
             "catch", "returned"}
NotYetDispatched(i) ==
  pc[i] \in {"pending", "resolve", "headers", "body", "dispatch"}
C12_BodyAttachedIffTruthy ==
  \A i \in Cases :
    /\ NotYetDispatched(i) => sent[i] = <<>>
    /\ Dispatched(i) =>
         /\ Len(sent[i]) = 1
         /\ sent[i][1].body =
              (IF body[i] \in JsFalsy THEN Undefined ELSE body[i])
C12_Witness ==
  \E i \in Cases :
    /\ pc[i] = "awaiting"
    /\ body[i] \in {Num(0), Str(""), Bool(FALSE)}
    /\ Len(sent[i]) = 1
    /\ sent[i][1].body = Undefined

\* C13: when the specification module lacks baseUrl or spec, an error whose
\* message names every missing field is thrown before any case is registered
\* or executed: no request is dispatched and Shared State is never created.
MissingFields ==
  (IF baseUrl = Undefined THEN {"baseUrl"} ELSE {})
  \cup (IF specExported THEN {} ELSE {"spec"})
Words(msg) == {msg[n] : n \in DOMAIN msg}
C13_ConfigurationErrorBeforeAnyCase ==
  (specPath /\ MissingFields # {}) =>
    /\ phase \in {"boot", "load", "crashed"}
    /\ tests = <<>> /\ order = <<>> /\ S = <<>>
    /\ \A i \in Cases : sent[i] = <<>> /\ calls[i] = <<>> /\ pc[i] = "pending"
    /\ phase = "crashed" =>
         /\ fatal # Undefined
         /\ MissingFields \subseteq Words(fatal)
         /\ exitCode # 0
C13_Witness ==
  /\ phase = "crashed"
  /\ baseUrl = Str(BaseUrl)
  /\ ~specExported
  /\ "spec" \in Words(fatal)

\* C14: the exit code of a finished run is 0 iff every case passed, and it
\* is not 0 when a case failed or when no specification path was given.
C14_ExitCode ==
  /\ phase = "done" =>
       /\ \A i \in Cases : report[i] \in {"passed", "failed"}
       /\ exitCode = 0 <=> \A i \in Cases : report[i] = "passed"
       /\ (\E i \in Cases : report[i] = "failed") => exitCode # 0
  /\ (~specPath /\ phase # "boot") => (phase = "exited" /\ exitCode # 0)
C14_Witness ==
  /\ phase = "done"
  /\ exitCode = 1
  /\ \E i, j \in Cases : report[i] = "passed" /\ report[j] = "failed"

\* C15: once created, Shared State changes only while a hook of a case
\* runs: path resolution, the header and body functions and the expectation
\* leave every key of it unchanged.
C15_StateChangesOnlyInHooks ==
  [][(S' # S /\ phase # "load") =>
       \E i \in Cases : thread = i /\ pc[i] \in HookNames]_vars

\* C16: the steps of a case run in the order resolve, header function, body
\* function, dispatch, expectation, hooks; a step that raises is the last
\* step of the case; a case passes only if every step ran without raising;
\* and a case whose path resolution fails invokes nothing else.
Rank(fn) ==
  CASE fn = "applyParams" -> 1 [] fn = "hdrs" -> 2 [] fn = "bodyP" -> 3
    [] fn = "await" -> 4 [] fn = "expecter" -> 5 [] fn = "combinedFn" -> 6
    [] fn = "assertBody" -> 7 [] OTHER -> 8
Supplied(i) ==
  {"applyParams", "await", "expecter"}
  \cup (IF IsFunction(Row(i).hdrs) THEN {"hdrs"} ELSE {})
  \cup (IF IsFunction(Row(i).bodyP) THEN {"bodyP"} ELSE {})
  \cup (IF Row(i).len = 6 /\ IsFunction(Row(i).col6)
        THEN {"combinedFn"} ELSE {})
  \cup (IF Row(i).len # 6 /\ IsFunction(Row(i).col6)
        THEN {"assertBody"} ELSE {})
  \cup (IF Row(i).len # 6 /\ IsFunction(Row(i).col7) THEN {"store"} ELSE {})
C16_StepsInOrder ==
  \A i \in Cases :
    /\ \A n, m \in DOMAIN calls[i] :
         n < m => /\ Rank(calls[i][n].fn) < Rank(calls[i][m].fn)
                  /\ ~calls[i][n].raised
    /\ \A n \in DOMAIN calls[i] :
         \A f \in Supplied(i) :
           Rank(f) < Rank(calls[i][n].fn) => Called(i, f)
    /\ Called(i, "await") <=> (sent[i] # <<>> /\ pc[i] # "awaiting")
    /\ report[i] = "passed" =>
         \A f \in Supplied(i) : Called(i, f) /\ ~Raised(i, f)
    /\ Raised(i, "applyParams") =>
         /\ calls[i] = <<Call("applyParams", TRUE)>>
         /\ sent[i] = <<>>
C16_Witness ==
  \E i \in Cases :
    /\ Raised(i, "applyParams")
    /\ IsFunction(Row(i).hdrs)
    /\ pc[i] = "done"
    /\ report[i] = "failed"

\* C17: a case is started at most once and dispatches at most one request;
\* a case that fails at the request, the expectation or a hook emits its
\* diagnostic exactly once and throws the error that was raised.
FailedInTry(i) ==
  \E f \in {"await", "expecter"} \cup HookNames : Raised(i, f)
RaisedError(i) ==
  IF LastCall(i).fn = "await" THEN err[i] \in TransportErrors
  ELSE IF LastCall(i).fn = "expecter"
       THEN err[i] = Error("expectation failed", Undefined)
       ELSE err[i] = Error(LastCall(i).fn \o " failed", Undefined)
C17_NoRetryOneReport ==
  \A i \in Cases :
    /\ Cardinality({n \in DOMAIN order : order[n] = i}) <= 1
    /\ Len(sent[i]) <= 1
    /\ Len(stderr[i]) <= 1
    /\ \A f \in {"await", "expecter"} \cup HookNames :
         Cardinality(CallsOf(i, f)) <= 1
    /\ (FailedInTry(i) /\ pc[i] \in {"thrown", "done"}) => Len(stderr[i]) = 1
    /\ (FailedInTry(i) /\ pc[i] = "thrown") =>
         /\ RaisedError(i)
         /\ stderr[i][1].detail = Detail(err[i])
    /\ (FailedInTry(i) /\ pc[i] = "done") => report[i] = "failed"
C17_Witness ==
  \E i \in Cases :
    /\ Raised(i, "store")
    /\ pc[i] = "thrown"
    /\ Len(stderr[i]) = 1
    /\ Len(sent[i]) = 1

\* C18: a row of length 6 invokes its sixth field as the combined hook and
\* no other hook; a row of another length invokes its sixth field as the
\* assertion and its seventh as the state update; a field that is no
\* function is a no-op; a passing case has invoked each hook it supplies
\* exactly once; and a row without hooks passes iff its expectation passes.
SuppliedHooks(i) == Supplied(i) \cap HookNames
ExpectationPassed(i) ==
  \E n \in DOMAIN calls[i] : calls[i][n] = Call("expecter", FALSE)
C18_RowShapeByLength ==
  \A i \in Cases :
    /\ \A h \in HookNames :
         /\ Cardinality(CallsOf(i, h)) <= 1
         /\ Called(i, h) => h \in SuppliedHooks(i)
    /\ Row(i).len = 6 => SuppliedHooks(i) \subseteq {"combinedFn"}
    /\ Row(i).len # 6 => SuppliedHooks(i) \subseteq {"assertBody", "store"}
    /\ report[i] = "passed" =>
         \A h \in SuppliedHooks(i) : Cardinality(CallsOf(i, h)) = 1
    /\ (SuppliedHooks(i) = {} /\ pc[i] = "done") =>
         (report[i] = "passed" <=> ExpectationPassed(i))

\* C19 as claimed: for an empty object given as body no request body is
\* attached, as for an empty string or zero.
EmptyValues == {Obj({}), Str(""), Num(0)}
C19_EmptyObjectNotSent ==
  \A i \in Cases :
    (Dispatched(i) /\ body[i] \in EmptyValues) =>
      \A n \in DOMAIN sent[i] : sent[i][n].body = Undefined

\* C19, amended: an empty object given as body is truthy and is attached to
\* the request like any other object; for an empty string or zero no body
\* is attached.
C19_EmptyObjectIsSent ==
  \A i \in Cases :
    Dispatched(i) =>
      /\ Len(sent[i]) = 1
      /\ body[i] = Obj({}) => sent[i][1].body = Obj({})
      /\ body[i] \in {Str(""), Num(0)} => sent[i][1].body = Undefined
C19_Witness ==
  \E i \in Cases :
    /\ pc[i] = "awaiting"
    /\ body[i] = Obj({})
    /\ Len(sent[i]) = 1
    /\ sent[i][1].body = Obj({})

\* C20: the header function and the body function of a case are each
\* invoked at most once, and not before the case is executed; the command
\* line of the diagnostic shows the very path, headers and body of the
\* request that was dispatched.
C20_DiagnosticShowsDispatchedRequest ==
  \A i \in Cases :
    /\ Cardinality(CallsOf(i, "hdrs")) <= 1
    /\ Cardinality(CallsOf(i, "bodyP")) <= 1
    /\ pc[i] = "pending" => calls[i] = <<>>
    /\ \A n \in DOMAIN stderr[i] :
         /\ Len(sent[i]) = 1
         /\ stderr[i][n].cmd.X = ToUpperCase(sent[i][1].method)
         /\ stderr[i][n].cmd.url = sent[i][1].url
         /\ stderr[i][n].cmd.H = sent[i][1].headers
         /\ stderr[i][n].cmd.d = sent[i][1].body
C20_Witness ==
  \E i \in Cases :
    /\ pc[i] = "thrown"
    /\ Called(i, "hdrs")
    /\ Len(stderr[i]) = 1
    /\ stderr[i][1].cmd.H = {<<"Authorization", "Bearer null">>}
    /\ S["token"] = Str("tok")

====
